---------------------------- MODULE Spec2Model ----------------------------
(***************************************************************************)
(* A model of script.js, the red-tag form: the record store formDatabase,  *)
(* the attachment list, saveForm / clearForm / handleFileSelect /          *)
(* removeFile, the analytics computed by performAIAnalysis, the rows       *)
(* rendered by formatTopItems and the CSV document built by exportToExcel. *)
(*                                                                         *)
(* A JavaScript string is a sequence of atoms.  An atom is one character   *)
(* the program looks at (a digit, ",", ";", "-", the newline "\n") or a    *)
(* chunk of other characters that it never looks into ("MOT-001").  An     *)
(* absent property of a record is a field missing from DOMAIN.  Instants   *)
(* are counted in hours since 1970-01-01T00:00Z.                           *)
(***************************************************************************)
EXTENDS Integers, Sequences, FiniteSets, TLC

VARIABLES
    loaded,         \* TRUE once the DOMContentLoaded handler has run
    formDatabase,   \* let formDatabase = []
    attachedFiles,  \* let attachedFiles = []
    now,            \* the clock read by Date.now() and new Date(); a run is
                    \* short against its unit, and reads one value throughout
    analytics,      \* the object returned by the last performAIAnalysis call
    display,        \* innerHTML of topParts / topAssets / failureTrends / mfcStats
    csvContent,     \* the document built by the last exportToExcel call
    slackPosts,     \* the messages handed to fetch() by sendToSlack
    lastOp          \* the handler that ran last, with its input

vars == <<loaded, formDatabase, attachedFiles, now, analytics, display,
          csvContent, slackPosts, lastOp>>

---------------------------------------------------------------------------
(* Generic helpers.                                                        *)

Min(a, b) == IF a <= b THEN a ELSE b

RECURSIVE Pow2(_)
Pow2(k) == IF k <= 0 THEN 1 ELSE 2 * Pow2(k - 1)

\* all sequences over S of length 0..n
SeqsUpTo(S, n) == UNION {[1..k -> S] : k \in 0..n}

---------------------------------------------------------------------------
(* Strings.                                                                *)

Digits == <<"0", "1", "2", "3", "4", "5", "6", "7", "8", "9">>

IsDigit(c) == \E d \in DOMAIN Digits : Digits[d] = c

DigitVal(c) == (CHOOSE d \in DOMAIN Digits : Digits[d] = c) - 1

RECURSIVE NumberToString(_)
\* Number::toString of a non-negative integer: its decimal digits
NumberToString(n) ==
    IF n < 10 THEN <<Digits[n + 1]>>
    ELSE Append(NumberToString(n \div 10), Digits[(n % 10) + 1])

RECURSIVE Join(_, _)
\* Array.prototype.join over cells that are strings
Join(cells, sep) ==
    IF cells = <<>> THEN <<>>
    ELSE IF Len(cells) = 1 THEN cells[1]
    ELSE cells[1] \o <<sep>> \o Join(Tail(cells), sep)

\* String.prototype.replace(',', ';'): the first comma only
ReplaceFirstComma(s) ==
    [i \in DOMAIN s |->
        IF s[i] = "," /\ \A j \in 1..(i - 1) : s[j] # "," THEN ";" ELSE s[i]]

\* String.prototype.replace(/,/g, ';')
ReplaceCommas(s) == [i \in DOMAIN s |-> IF s[i] = "," THEN ";" ELSE s[i]]

RECURSIVE Split(_, _)
\* String.prototype.split(sep): the pieces between the separators
Split(s, sep) ==
    IF \A i \in DOMAIN s : s[i] # sep THEN <<s>>
    ELSE LET k == CHOOSE i \in DOMAIN s :
                      s[i] = sep /\ \A j \in 1..(i - 1) : s[j] # sep
         IN  <<SubSeq(s, 1, k - 1)>> \o Split(SubSeq(s, k + 1, Len(s)), sep)

---------------------------------------------------------------------------
(* Property access on a record.                                            *)

Has(record, f) == f \in DOMAIN record

\* ToBoolean(record[f]) for a string-valued property: absent and '' are falsy
Truthy(record, f) == Has(record, f) /\ record[f] # <<>>

\* record[f] || ''
OrEmpty(record, f) == IF Truthy(record, f) THEN record[f] ELSE <<>>

\* ToPropertyKey(record[f]): an absent value becomes the key "undefined"
PropertyKey(record, f) == IF Has(record, f) THEN record[f] ELSE <<"undefined">>

---------------------------------------------------------------------------
(* Dates.  new Date(string) on a date-only ISO string "YYYY-MM-DD" is      *)
(* midnight UTC of that day; a string that is no date, '' and undefined    *)
(* give an Invalid Date, whose time value is NaN.  The strings of the      *)
(* model are either date-only ISO strings of a real calendar day or text   *)
(* no date format accepts.                                                 *)

InvalidDate == [valid |-> FALSE, t |-> 0]

IsLeapYear(y) == (y % 4 = 0 /\ y % 100 # 0) \/ y % 400 = 0

DaysInMonth(y, m) ==
    IF m = 2 THEN (IF IsLeapYear(y) THEN 29 ELSE 28)
    ELSE IF m \in {4, 6, 9, 11} THEN 30 ELSE 31

\* days from 1970-01-01 to the civil day y-m-d
DaysFromCivil(y, m, d) ==
    LET yy  == IF m <= 2 THEN y - 1 ELSE y
        era == yy \div 400
        yoe == yy - era * 400
        mp  == IF m > 2 THEN m - 3 ELSE m + 9
        doy == (153 * mp + 2) \div 5 + d - 1
        doe == yoe * 365 + yoe \div 4 - yoe \div 100 + doy
    IN  era * 146097 + doe - 719468

\* the instant, in hours, of hour h of the civil day y-m-d (UTC)
Instant(y, m, d, h) == DaysFromCivil(y, m, d) * 24 + h

\* new Date(s) for a string s
DateParse(s) ==
    IF /\ Len(s) = 10
       /\ s[5] = "-" /\ s[8] = "-"
       /\ \A i \in {1, 2, 3, 4, 6, 7, 9, 10} : IsDigit(s[i])
    THEN LET y == 1000 * DigitVal(s[1]) + 100 * DigitVal(s[2])
                  + 10 * DigitVal(s[3]) + DigitVal(s[4])
             m == 10 * DigitVal(s[6]) + DigitVal(s[7])
             d == 10 * DigitVal(s[9]) + DigitVal(s[10])
         IN  IF m \in 1..12 /\ d \in 1..DaysInMonth(y, m)
             THEN [valid |-> TRUE, t |-> Instant(y, m, d, 0)]
             ELSE InvalidDate
    ELSE InvalidDate

\* record.date || record.removalDate: the string handed to new Date, or
\* undefined when neither property gives one
DateArgument(record) ==
    IF Truthy(record, "date") THEN [defined |-> TRUE, s |-> record.date]
    ELSE IF Has(record, "removalDate") THEN [defined |-> TRUE, s |-> record.removalDate]
    ELSE [defined |-> FALSE, s |-> <<>>]

\* new Date(record.date || record.removalDate)
RecordDate(record) ==
    IF DateArgument(record).defined THEN DateParse(DateArgument(record).s)
    ELSE InvalidDate

ThirtyDays == 30

\* thirtyDaysAgo.setDate(thirtyDaysAgo.getDate() - 30), the UTC offset of
\* the local zone being the same at both ends of the window
ThirtyDaysAgo(clock) == clock - ThirtyDays * 24

\* recordDate >= thirtyDaysAgo: a comparison with NaN is false
IsRecent(record, clock) ==
    LET recordDate == RecordDate(record)
    IN  recordDate.valid /\ recordDate.t >= ThirtyDaysAgo(clock)

---------------------------------------------------------------------------
(* recentData.length > data.length * 0.6 in IEEE 754 binary64.  The        *)
(* literal 0.6 is the double 0x3FE3333333333333, that is                   *)
(* 0x13333333333333 * 2^-53; its 53-bit significand is kept as three       *)
(* limbs of 18 bits.  The product with the integer n is formed exactly and *)
(* rounded to 53 significant bits, to nearest, ties to even.               *)

LimbBase == Pow2(18)
SixTenthsLimb0 == 209715   \* bits  0..17 of 0x13333333333333
SixTenthsLimb1 == 52428    \* bits 18..35
SixTenthsLimb2 == 78643    \* bits 36..52

RECURSIVE BitLength(_)
BitLength(x) == IF x = 0 THEN 0 ELSE 1 + BitLength(x \div 2)

\* the limbs <<p0, p1, p2>> of the double n * 0.6, scaled by 2^53
TimesSixTenths(n) ==
    LET B    == LimbBase
        t0   == n * SixTenthsLimb0
        t1   == n * SixTenthsLimb1 + t0 \div B
        p0   == t0 % B
        p1   == t1 % B
        p2   == n * SixTenthsLimb2 + t1 \div B
        s    == BitLength(p2) - (BitLength(SixTenthsLimb2))   \* bits to drop
        unit == Pow2(s)
        rem  == p0 % unit
        odd  == (p0 \div unit) % 2 = 1
        up   == s >= 1 /\ (2 * rem > unit \/ (2 * rem = unit /\ odd))
        q0   == p0 - rem + (IF up THEN unit ELSE 0)
        q1   == p1 + q0 \div B
        q2   == p2 + q1 \div B
    IN  IF n = 0 THEN <<0, 0, 0>> ELSE <<q0 % B, q1 % B, q2>>

\* r > n * 0.6 for integers r, n: r = r * 2^17 * 2^36, so r exceeds the
\* product exactly when r * 2^17 exceeds its top limb
GreaterThanSixTenthsOf(r, n) ==
    r * Pow2(BitLength(SixTenthsLimb2)) > TimesSixTenths(n)[3]

---------------------------------------------------------------------------
(* The counting objects of performAIAnalysis.  An object literal {} is     *)
(* modelled by its own properties in creation order, a sequence of         *)
(* [name, count].  It inherits from Object.prototype; of the inherited     *)
(* members the input alphabet names only the accessor __proto__.           *)

ProtoKey == <<"__proto__">>

HasOwn(table, key) == \E i \in DOMAIN table : table[i].name = key

\* counts[key] = (counts[key] || 0) + 1
\* counts["__proto__"] reads Object.prototype through the inherited getter,
\* which is truthy; the sum is the string "[object Object]1", and the
\* inherited setter ignores a value that is neither an object nor null.
CountKey(table, key) ==
    IF key = ProtoKey THEN table
    ELSE IF HasOwn(table, key)
    THEN [i \in DOMAIN table |->
            IF table[i].name = key
            THEN [name |-> key, count |-> table[i].count + 1]
            ELSE table[i]]
    ELSE Append(table, [name |-> key, count |-> 1])

RECURSIVE CountField(_, _, _)
\* data.forEach(record => { counts[record[f]] = (counts[record[f]] || 0) + 1 })
CountField(data, f, table) ==
    IF data = <<>> THEN table
    ELSE CountField(Tail(data), f, CountKey(table, PropertyKey(Head(data), f)))

\* an array index: a canonical numeric string below 2^32 - 1
MaxArrayIndex == <<"4", "2", "9", "4", "9", "6", "7", "2", "9", "4">>

RECURSIVE DigitsLess(_, _)
\* a < b for digit strings of the same length
DigitsLess(a, b) ==
    IF a = <<>> THEN FALSE
    ELSE IF DigitVal(Head(a)) # DigitVal(Head(b))
         THEN DigitVal(Head(a)) < DigitVal(Head(b))
         ELSE DigitsLess(Tail(a), Tail(b))

\* a < b for canonical numeric strings
IndexLess(a, b) ==
    Len(a) < Len(b) \/ (Len(a) = Len(b) /\ DigitsLess(a, b))

IsArrayIndex(key) ==
    /\ Len(key) >= 1
    /\ \A i \in DOMAIN key : IsDigit(key[i])
    /\ (Len(key) > 1 => key[1] # "0")
    /\ ~IndexLess(MaxArrayIndex, key)

RECURSIVE SortIndexKeys(_)
\* entries whose names are array indices, in ascending numeric order
SortIndexKeys(entries) ==
    IF entries = <<>> THEN <<>>
    ELSE LET k == CHOOSE i \in DOMAIN entries :
                     \A j \in DOMAIN entries :
                        j # i => IndexLess(entries[i].name, entries[j].name)
         IN  <<entries[k]>> \o
             SortIndexKeys(SubSeq(entries, 1, k - 1)
                           \o SubSeq(entries, k + 1, Len(entries)))

\* Object.entries(counts): OrdinaryOwnPropertyKeys lists the array-index
\* keys in ascending numeric order, then the other string keys in
\* creation order
ObjectEntries(table) ==
    SortIndexKeys(SelectSeq(table, LAMBDA e : IsArrayIndex(e.name)))
    \o SelectSeq(table, LAMBDA e : ~IsArrayIndex(e.name))

RECURSIVE SortByCountDesc(_)
\* .sort(([,a], [,b]) => b - a): Array.prototype.sort is stable, the
\* comparator is consistent on numbers
SortByCountDesc(entries) ==
    IF entries = <<>> THEN <<>>
    ELSE LET k == CHOOSE i \in DOMAIN entries :
                     /\ \A j \in DOMAIN entries : entries[j].count <= entries[i].count
                     /\ \A j \in 1..(i - 1) : entries[j].count < entries[i].count
         IN  <<entries[k]>> \o
             SortByCountDesc(SubSeq(entries, 1, k - 1)
                             \o SubSeq(entries, k + 1, Len(entries)))

TopN == 5

\* .slice(0, n)
Slice(seq, n) == SubSeq(seq, 1, Min(n, Len(seq)))

\* Object.entries(counts).sort(...).slice(0, 5).map(([name, count]) => ({name, count}))
TopOf(table) == Slice(SortByCountDesc(ObjectEntries(table)), TopN)

\* Object.entries(counts).sort(...).map(([name, count]) => ({name, count}))
RankedOf(table) == SortByCountDesc(ObjectEntries(table))

NoDataYet == <<[name |-> <<"No data yet">>, count |-> 0]>>

\* data.filter(record => new Date(record.date || record.removalDate) >= thirtyDaysAgo)
RecentData(data, clock) == SelectSeq(data, LAMBDA record : IsRecent(record, clock))

\* r >= n * 0.6
AtLeastSixTenthsOf(r, n) ==
    LET p == TimesSixTenths(n)
        top == r * Pow2(BitLength(SixTenthsLimb2))
    IN  top > p[3] \/ (top = p[3] /\ p[2] = 0 /\ p[1] = 0)

\* the comparison written >= instead of >
TrendLabelAtLeast(recentCount, totalCount) ==
    IF AtLeastSixTenthsOf(recentCount, totalCount)
    THEN "Increasing failure rate"
    ELSE "Stable failure rate"

\* recentData.length > data.length * 0.6 ? 'Increasing...' : 'Stable...'
TrendLabel(recentCount, totalCount) ==
    IF GreaterThanSixTenthsOf(recentCount, totalCount)
    THEN "Increasing failure rate"
    ELSE "Stable failure rate"

PartCounts(data)   == CountField(data, "partNumber", <<>>)
AssetCounts(data)  == CountField(data, "removedFrom", <<>>)
MfcCounts(data)    == CountField(data, "mfc", <<>>)
ReasonCounts(data) == CountField(data, "reasonRemove", <<>>)

\* performAIAnalysis without its guard for the empty array
performAIAnalysisUnguarded(data, clock) ==
    [topParts  |-> TopOf(PartCounts(data)),
     topAssets |-> TopOf(AssetCounts(data)),
     trends    |-> [trend |-> TrendLabel(Len(RecentData(data, clock)), Len(data)),
                    recentCount |-> Len(RecentData(data, clock)),
                    totalCount  |-> Len(data)],
     mfcStats  |-> RankedOf(MfcCounts(data))]

performAIAnalysis(data, clock) ==
    IF Len(data) = 0
    THEN [topParts  |-> NoDataYet,
          topAssets |-> NoDataYet,
          trends    |-> [trend |-> "Insufficient data",
                         recentCount |-> 0, totalCount |-> 0],
          mfcStats  |-> NoDataYet]
    ELSE [topParts  |-> TopOf(PartCounts(data)),
          topAssets |-> TopOf(AssetCounts(data)),
          trends    |-> [trend |-> TrendLabel(Len(RecentData(data, clock)), Len(data)),
                         recentCount |-> Len(RecentData(data, clock)),
                         totalCount  |-> Len(data)],
          mfcStats  |-> RankedOf(MfcCounts(data))]

---------------------------------------------------------------------------
(* Rendering.  formatTopItems returns HTML text; the model keeps what      *)
(* tells the rows apart: the element, its background and border colours,   *)
(* the name and the count.                                                 *)

NoDataAvailable == <<[tag |-> "em", name |-> <<"No data available">>, count |-> 0,
                      background |-> "", border |-> ""]>>

\* formatTopItems emphasizing every row that has the top count
formatTopItemsByCount(items) ==
    IF Len(items) = 0 \/ items[1].count = 0 THEN NoDataAvailable
    ELSE [index \in DOMAIN items |->
            [tag        |-> "div",
             name       |-> items[index].name,
             count      |-> items[index].count,
             background |-> IF items[index].count = items[1].count
                            THEN "#e3f2fd" ELSE "#f5f5f5",
             border     |-> IF items[index].count = items[1].count
                            THEN "#1976d2" ELSE "#ddd"]]

formatTopItems(items) ==
    IF Len(items) = 0 \/ items[1].count = 0 THEN NoDataAvailable
    ELSE [index \in DOMAIN items |->
            [tag        |-> "div",
             name       |-> items[index].name,
             count      |-> items[index].count,
             background |-> IF index = 1 THEN "#e3f2fd" ELSE "#f5f5f5",
             border     |-> IF index = 1 THEN "#1976d2" ELSE "#ddd"]]

---------------------------------------------------------------------------
(* exportToExcel.                                                          *)

Headers == << <<"ID">>, <<"MFC">>, <<"Date">>, <<"Tagged By">>, <<"Item Type">>,
              <<"Part Number">>, <<"Asset SN">>, <<"Service Call ID">>,
              <<"Reason">>, <<"Comments">> >>

\* row.id || '': the number 0 and an absent id give ''
IdCell(row) ==
    IF Has(row, "id") /\ row.id # 0 THEN NumberToString(row.id) ELSE <<>>

\* row.removalDate || row.date || ''
DateCell(row) ==
    IF Truthy(row, "removalDate") THEN row.removalDate ELSE OrEmpty(row, "date")

ExportCells(row) ==
    << IdCell(row),
       OrEmpty(row, "mfc"),
       DateCell(row),
       OrEmpty(row, "taggedBy"),
       OrEmpty(row, "itemType"),
       OrEmpty(row, "partNumber"),
       OrEmpty(row, "removedFrom"),
       OrEmpty(row, "serviceCallId"),
       OrEmpty(row, "reasonRemove"),
       ReplaceCommas(OrEmpty(row, "comments")) >>

ExportLine(row) == Join(ExportCells(row), ",")

\* [headers.join(','), ...formDatabase.map(row => [...].join(','))].join('\n')
CsvContent(database) ==
    Join(<<Join(Headers, ",")>> \o [i \in DOMAIN database |-> ExportLine(database[i])],
         "\n")

---------------------------------------------------------------------------
(* Inputs.                                                                 *)

D_2023_06_01 == <<"2", "0", "2", "3", "-", "0", "6", "-", "0", "1">>
D_2024_01_15 == <<"2", "0", "2", "4", "-", "0", "1", "-", "1", "5">>
D_2024_01_20 == <<"2", "0", "2", "4", "-", "0", "1", "-", "2", "0">>
D_2024_02_01 == <<"2", "0", "2", "4", "-", "0", "2", "-", "0", "1">>
D_2024_02_10 == <<"2", "0", "2", "4", "-", "0", "2", "-", "1", "0">>
D_2024_02_15 == <<"2", "0", "2", "4", "-", "0", "2", "-", "1", "5">>

\* const mockData = [...]
MockData ==
    << [id |-> 1, mfc |-> <<"HLN01">>, partNumber |-> <<"MOT-001">>,
        removedFrom |-> <<"LR0000">>, reasonRemove |-> <<"Defected">>,
        date |-> D_2024_01_15],
       [id |-> 2, mfc |-> <<"EMK01">>, partNumber |-> <<"PCB-445">>,
        removedFrom |-> <<"RB-2024-002">>, reasonRemove |-> <<"Scrap">>,
        date |-> D_2024_01_20],
       [id |-> 3, mfc |-> <<"BS01">>, partNumber |-> <<"MOT-001">>,
        removedFrom |-> <<"RB-2024-003">>, reasonRemove |-> <<"Defected">>,
        date |-> D_2024_02_01],
       [id |-> 4, mfc |-> <<"DAL01">>, partNumber |-> <<"SEN-220">>,
        removedFrom |-> <<"RB-2024-001">>, reasonRemove |-> <<"Required For R&D">>,
        date |-> D_2024_02_10],
       [id |-> 5, mfc |-> <<"NYC01">>, partNumber |-> <<"PCB-445">>,
        removedFrom |-> <<"RB-2024-004">>, reasonRemove |-> <<"Defected">>,
        date |-> D_2024_02_15] >>

\* the instants at which the program runs: 30 days to the hour after
\* midnight of 2024-01-20, a day and a half later, and years later
Clocks == {Instant(2024, 2, 19, 0), Instant(2024, 2, 20, 12), Instant(2026, 11, 4, 9)}

\* what the user may have typed into the form when saveForm runs
BaseForm ==
    [mfc |-> <<"HLN01">>, removalDate |-> D_2024_02_10, taggedBy |-> <<"J. Smith">>,
     itemType |-> <<"Part">>, partNumber |-> <<"1", "0">>,
     removedFrom |-> <<"RB-2024-002">>, serviceCallId |-> <<>>,
     reasonRemove |-> <<"Scrap">>, comments |-> <<"ok", ",", " replaced">>]

ValidForms ==
    { BaseForm,
      [BaseForm EXCEPT !.partNumber = <<"2">>, !.serviceCallId = <<"SC-7">>,
                       !.comments = <<"line one", "\n", "line two">>,
                       !.removalDate = D_2024_01_20] }

RequiredFields == <<"mfc", "removalDate", "taggedBy", "itemType", "partNumber",
                    "removedFrom", "reasonRemove">>

\* an unchecked radio group sends no entry at all
InvalidForms ==
    { [BaseForm EXCEPT ![RequiredFields[k]] = <<>>] : k \in DOMAIN RequiredFields }
    \cup { [f \in DOMAIN BaseForm \ {"itemType"} |-> BaseForm[f]] }

Forms == ValidForms \cup InvalidForms

Files == { [name |-> <<"photo.jpg">>] }

MaxSaves == 1
MaxFiles == 1

---------------------------------------------------------------------------
(* The handlers.  The browser delivers DOMContentLoaded before any event   *)
(* of the user, so the other handlers run once the stored data is loaded.  *)

NoAnalytics ==
    [topParts |-> <<>>, topAssets |-> <<>>,
     trends |-> [trend |-> "", recentCount |-> 0, totalCount |-> 0],
     mfcStats |-> <<>>]

NoDisplay ==
    [topParts |-> <<>>, topAssets |-> <<>>, failureTrends |-> <<>>,
     mfcStats |-> <<>>, fileList |-> <<>>]

\* the row formatTrends renders from the trend triple
formatTrends(trends) ==
    <<[tag |-> "div", name |-> <<trends.trend>>, count |-> trends.recentCount,
       total |-> trends.totalCount]>>

\* the rows formatMFCStats renders: every entry, index 0 emphasized
formatMFCStats(items) == formatTopItems(items)

\* updateFileList(): one chip per attached file, whose button removes index
FileListOf(files) ==
    [index \in DOMAIN files |-> [name |-> files[index].name, remove |-> index - 1]]

\* the four innerHTML assignments of updateAnalytics
AnalyticsDisplay(shown, result) ==
    [shown EXCEPT !.topParts      = formatTopItems(result.topParts),
                  !.topAssets     = formatTopItems(result.topAssets),
                  !.failureTrends = formatTrends(result.trends),
                  !.mfcStats      = formatMFCStats(result.mfcStats)]

Init ==
    /\ loaded = FALSE
    /\ formDatabase = <<>>
    /\ attachedFiles = <<>>
    /\ now \in Clocks
    /\ analytics = NoAnalytics
    /\ display = NoDisplay
    /\ csvContent = <<>>
    /\ slackPosts = <<>>
    /\ lastOp = [op |-> "script", input |-> <<>>, calls |-> <<>>]

\* document.addEventListener('DOMContentLoaded', ...): loadStoredData();
\* updateAnalytics(); setDefaultDate(); initializeEventListeners()
DOMContentLoaded ==
    /\ ~loaded
    /\ loaded' = TRUE
    /\ formDatabase' = MockData
    /\ analytics' = performAIAnalysis(formDatabase', now)
    /\ display' = AnalyticsDisplay(display, analytics')
    /\ lastOp' = [op |-> "DOMContentLoaded", input |-> <<>>,
                  calls |-> <<"loadStoredData", "updateAnalytics", "setDefaultDate",
                              "initializeEventListeners">>]
    /\ UNCHANGED <<attachedFiles, now, csvContent, slackPosts>>

\* handleFileSelect(event): attachedFiles = attachedFiles.concat(files)
HandleFileSelect(files) ==
    /\ loaded
    /\ Len(attachedFiles) + Len(files) <= MaxFiles
    /\ attachedFiles' = attachedFiles \o files
    /\ display' = [display EXCEPT !.fileList = FileListOf(attachedFiles')]
    /\ lastOp' = [op |-> "handleFileSelect", input |-> <<>>, calls |-> <<"updateFileList">>]
    /\ UNCHANGED <<loaded, formDatabase, now, analytics, csvContent, slackPosts>>

\* removeFile(index): attachedFiles.splice(index, 1), from a rendered button
RemoveFile(index) ==
    /\ loaded
    /\ \E i \in DOMAIN display.fileList : display.fileList[i].remove = index
    /\ attachedFiles' = SubSeq(attachedFiles, 1, index)
                        \o SubSeq(attachedFiles, index + 2, Len(attachedFiles))
    /\ display' = [display EXCEPT !.fileList = FileListOf(attachedFiles')]
    /\ lastOp' = [op |-> "removeFile", input |-> <<>>, calls |-> <<"updateFileList">>]
    /\ UNCHANGED <<loaded, formDatabase, now, analytics, csvContent, slackPosts>>

\* requiredFields.filter(field => !data[field])
MissingFields(data) == SelectSeq(RequiredFields, LAMBDA field : ~Truthy(data, field))

\* data.id = Date.now(); data.timestamp = new Date().toISOString();
\* data.attachedFiles = attachedFiles.map(f => f.name)
WithMetadata(data, clock, files) ==
    [id |-> clock, timestamp |-> clock,
     attachedFiles |-> [i \in DOMAIN files |-> files[i].name]] @@ data

\* the fields of the message sendToSlack posts
SlackFields(data) ==
    [mfc |-> data.mfc, partNumber |-> data.partNumber, removedFrom |-> data.removedFrom,
     reasonRemove |-> data.reasonRemove, taggedBy |-> data.taggedBy,
     removalDate |-> data.removalDate]

\* saveForm without its validation
AcceptsAnything(data) == TRUE

\* whether saveForm goes on past its validation
Accepts(data) == Len(MissingFields(data)) = 0

\* saveForm() with data = Object.fromEntries(new FormData(form).entries())
SaveForm(data) ==
    /\ loaded
    /\ IF ~Accepts(data)
       THEN /\ lastOp' = [op |-> "saveForm", input |-> data, calls |-> <<"showMessage">>]
            /\ UNCHANGED <<loaded, formDatabase, attachedFiles, now, analytics, display,
                           csvContent, slackPosts>>
       ELSE /\ Len(formDatabase) < Len(MockData) + MaxSaves
            /\ formDatabase' = Append(formDatabase, WithMetadata(data, now, attachedFiles))
            /\ slackPosts' = Append(slackPosts, SlackFields(data))
            /\ analytics' = performAIAnalysis(formDatabase', now)
            /\ attachedFiles' = <<>>
            /\ display' = [AnalyticsDisplay(display, analytics') EXCEPT !.fileList = <<>>]
            /\ lastOp' = [op |-> "saveForm", input |-> data,
                          calls |-> <<"simulateServerSave", "sendToSlack", "updateAnalytics",
                                      "clearForm", "showMessage">>]
            /\ UNCHANGED <<loaded, now, csvContent>>

\* clearForm(): form.reset(); attachedFiles = []; updateFileList(); setDefaultDate()
ClearForm ==
    /\ loaded
    /\ attachedFiles' = <<>>
    /\ display' = [display EXCEPT !.fileList = <<>>]
    /\ lastOp' = [op |-> "clearForm", input |-> <<>>,
                  calls |-> <<"updateFileList", "setDefaultDate">>]
    /\ UNCHANGED <<loaded, formDatabase, now, analytics, csvContent, slackPosts>>

\* exportToExcel()
ExportToExcel ==
    /\ loaded
    /\ csvContent' = CsvContent(formDatabase)
    /\ lastOp' = [op |-> "exportToExcel", input |-> <<>>, calls |-> <<"showMessage">>]
    /\ UNCHANGED <<loaded, formDatabase, attachedFiles, now, analytics, display, slackPosts>>

\* updateAnalytics()
UpdateAnalytics ==
    /\ loaded
    /\ analytics' = performAIAnalysis(formDatabase, now)
    /\ display' = AnalyticsDisplay(display, analytics')
    /\ lastOp' = [op |-> "updateAnalytics", input |-> <<>>,
                  calls |-> <<"performAIAnalysis", "formatTopItems", "formatTopItems",
                              "formatTrends", "formatMFCStats">>]
    /\ UNCHANGED <<loaded, formDatabase, attachedFiles, now, csvContent, slackPosts>>

Next ==
    \/ DOMContentLoaded
    \/ \E files \in SeqsUpTo(Files, MaxFiles) \ {<<>>} : HandleFileSelect(files)
    \/ \E index \in 0..MaxFiles : RemoveFile(index)
    \/ \E data \in Forms : SaveForm(data)
    \/ ClearForm
    \/ ExportToExcel
    \/ UpdateAnalytics

Spec == Init /\ [][Next]_vars

---------------------------------------------------------------------------
(* performAIAnalysis, formatTopItems and exportToExcel applied to          *)
(* arbitrary snapshots of the record store.                                *)

NotADate == <<"not a date">>

\* records as saveForm stores them, and legacy records
Saved10 ==
    WithMetadata([BaseForm EXCEPT !.partNumber = <<"1", "0">>,
                                  !.comments = <<"ok", ",", " replaced", ",", " tested">>],
                 Instant(2024, 2, 10, 9), <<>>)
Saved2 ==
    WithMetadata([BaseForm EXCEPT !.partNumber = <<"2">>, !.serviceCallId = <<"SC-7">>,
                                  !.removedFrom = <<"RB-2024-003">>,
                                  !.comments = <<"line one", "\n", "line two">>,
                                  !.removalDate = D_2024_01_20],
                 Instant(2024, 1, 20, 9), <<[name |-> <<"photo.jpg">>]>>)
BothDates ==
    [id |-> 8, mfc |-> <<"EMK01">>, partNumber |-> ProtoKey, removedFrom |-> <<"LR0000">>,
     reasonRemove |-> <<"Scrap">>, removalDate |-> D_2024_02_15, date |-> D_2023_06_01]
Sparse == [id |-> 9, reasonRemove |-> <<"Defected">>]
BadDate ==
    [id |-> 10, mfc |-> <<"BS01">>, partNumber |-> <<"MOT-001">>,
     removedFrom |-> <<"RB-2024-003">>, reasonRemove |-> <<"Defected">>,
     removalDate |-> NotADate]

Pool == {MockData[1], MockData[2], Saved10, Saved2, BothDates, Sparse, BadDate}

MaxLen == 3
MaxTail == 1
MaxTrendLen == 10

Repeat(record, n) == [i \in 1..n |-> record]

\* short snapshots in every order; the stored history with a tail; and
\* recent, old and undated records in every proportion
Snapshots ==
    SeqsUpTo(Pool, MaxLen)
    \cup { MockData \o <<Saved10, Saved2>> \o tail : tail \in SeqsUpTo(Pool, MaxTail) }
    \cup { Repeat(MockData[4], a) \o Repeat(MockData[1], b) \o Repeat(BadDate, c) :
             <<a, b, c>> \in { t \in (0..MaxTrendLen) \X (0..MaxTrendLen) \X (0..MaxTrendLen) :
                                  t[1] + t[2] + t[3] <= MaxTrendLen } }

InitSnapshot ==
    /\ loaded = TRUE
    /\ formDatabase \in Snapshots
    /\ attachedFiles = <<>>
    /\ now \in Clocks
    /\ analytics = NoAnalytics
    /\ display = NoDisplay
    /\ csvContent = <<>>
    /\ slackPosts = <<>>
    /\ lastOp = [op |-> "script", input |-> <<>>, calls |-> <<>>]

NextSnapshot == UpdateAnalytics \/ ExportToExcel

SpecSnapshot == InitSnapshot /\ [][NextSnapshot]_vars

---------------------------------------------------------------------------
(* Vocabulary of the properties, stated on the snapshot itself.            *)

\* performAIAnalysis has run (no result of it has an empty trend label)
AnalyticsDone == analytics.trends.trend # ""

\* exportToExcel has run (its document is never empty: it holds the header)
Exported == csvContent # <<>>

KeysOf(data, f) == {PropertyKey(data[i], f) : i \in DOMAIN data}

Occurrences(data, f, key) ==
    Cardinality({i \in DOMAIN data : PropertyKey(data[i], f) = key})

FirstOccurrence(data, f, key) ==
    CHOOSE i \in DOMAIN data :
        /\ PropertyKey(data[i], f) = key
        /\ \A j \in 1..(i - 1) : PropertyKey(data[j], f) # key

RECURSIVE SumCounts(_)
SumCounts(entries) ==
    IF entries = <<>> THEN 0 ELSE Head(entries).count + SumCounts(Tail(entries))

NamesOf(entries) == {entries[i].name : i \in DOMAIN entries}

\* the ranked lists performAIAnalysis returns, each with the field it ranks
RankedLists ==
    { [list |-> analytics.topParts,  field |-> "partNumber"],
      [list |-> analytics.topAssets, field |-> "removedFrom"],
      [list |-> analytics.mfcStats,  field |-> "mfc"] }

\* C1: in topParts, topAssets and mfcStats of a non-empty snapshot, entries
\* are in descending order of count, and of two keys with equal counts the
\* one that occurs first in the snapshot is ranked first, whatever the keys
\* look like.
C1_TieBreakByFirstOccurrence ==
    (AnalyticsDone /\ formDatabase # <<>>) =>
        \A r \in RankedLists :
            \A i, j \in DOMAIN r.list :
                i < j =>
                    /\ r.list[i].count >= r.list[j].count
                    /\ r.list[i].count = r.list[j].count =>
                           FirstOccurrence(formDatabase, r.field, r.list[i].name)
                           < FirstOccurrence(formDatabase, r.field, r.list[j].name)

\* C2: for a non-empty snapshot the counts of each complete frequency table
\* (parts, assets, MFCs, reasons) and of the returned mfcStats add up to the
\* number of records, a record without the field counting once.
C2_FrequencySum ==
    (AnalyticsDone /\ formDatabase # <<>>) =>
        /\ SumCounts(PartCounts(formDatabase)) = Len(formDatabase)
        /\ SumCounts(AssetCounts(formDatabase)) = Len(formDatabase)
        /\ SumCounts(MfcCounts(formDatabase)) = Len(formDatabase)
        /\ SumCounts(ReasonCounts(formDatabase)) = Len(formDatabase)
        /\ SumCounts(analytics.mfcStats) = Len(formDatabase)

\* the list holds n entries with distinct names, each a key of the field
\* with its number of occurrences, and no key left out occurs more often
\* than a key in the list
HoldsTop(list, f, n) ==
    /\ Len(list) = n
    /\ \A i, j \in DOMAIN list : i # j => list[i].name # list[j].name
    /\ \A i \in DOMAIN list :
          /\ list[i].name \in KeysOf(formDatabase, f)
          /\ list[i].count = Occurrences(formDatabase, f, list[i].name)
    /\ \A key \in KeysOf(formDatabase, f) \ NamesOf(list) :
          \A i \in DOMAIN list :
              Occurrences(formDatabase, f, key) <= list[i].count

\* C3: for a non-empty snapshot topParts and topAssets hold exactly
\* min(5, number of distinct keys) entries, no key twice, no omitted key more
\* frequent than an included one; mfcStats holds one entry per distinct key.
C3_TopNBound ==
    (AnalyticsDone /\ formDatabase # <<>>) =>
        /\ HoldsTop(analytics.topParts, "partNumber",
                    Min(5, Cardinality(KeysOf(formDatabase, "partNumber"))))
        /\ HoldsTop(analytics.topAssets, "removedFrom",
                    Min(5, Cardinality(KeysOf(formDatabase, "removedFrom"))))
        /\ HoldsTop(analytics.mfcStats, "mfc", Cardinality(KeysOf(formDatabase, "mfc")))

\* C4: for a non-empty snapshot the trend is "Increasing failure rate"
\* exactly when 10 * recentCount > 6 * totalCount and "Stable failure rate"
\* otherwise, totalCount being the size of the snapshot.
C4_TrendThreshold ==
    (AnalyticsDone /\ formDatabase # <<>>) =>
        /\ analytics.trends.totalCount = Len(formDatabase)
        /\ analytics.trends.trend =
              IF 10 * analytics.trends.recentCount > 6 * analytics.trends.totalCount
              THEN "Increasing failure rate"
              ELSE "Stable failure rate"

\* ten records of which six are recent: the trend is stable
C4_Witness ==
    /\ AnalyticsDone
    /\ Len(formDatabase) = 10
    /\ analytics.trends.recentCount = 6
    /\ analytics.trends.trend = "Stable failure rate"

\* ten records of which seven are recent: the trend is increasing
C4_WitnessSeven ==
    /\ AnalyticsDone
    /\ Len(formDatabase) = 10
    /\ analytics.trends.recentCount = 7
    /\ analytics.trends.trend = "Increasing failure rate"

\* C5: on an empty snapshot performAIAnalysis returns the trend triple
\* "Insufficient data", 0, 0 and the single entry "No data yet", 0 for each
\* ranked list.
C5_EmptySnapshotSentinel ==
    (AnalyticsDone /\ formDatabase = <<>>) =>
        /\ analytics.trends =
              [trend |-> "Insufficient data", recentCount |-> 0, totalCount |-> 0]
        /\ \A r \in RankedLists :
              r.list = <<[name |-> <<"No data yet">>, count |-> 0]>>

C5_Witness == AnalyticsDone /\ formDatabase = <<>>

\* the date of a record: removalDate if present, else date
EffectiveDate(record) ==
    IF Truthy(record, "removalDate") THEN record.removalDate
    ELSE IF Truthy(record, "date") THEN record.date
    ELSE <<>>

\* the effective date is a valid instant inside the 30 days before the clock
EffectivelyRecent(record, clock) ==
    /\ DateParse(EffectiveDate(record)).valid
    /\ DateParse(EffectiveDate(record)).t >= clock - 30 * 24

\* C6: for a non-empty snapshot recentCount is the number of records whose
\* effective date is a valid instant >= clock - 30 days, totalCount is the
\* size of the snapshot, and 0 <= recentCount <= totalCount.
C6_RecentCount ==
    (AnalyticsDone /\ formDatabase # <<>>) =>
        /\ analytics.trends.recentCount =
              Cardinality({i \in DOMAIN formDatabase :
                              EffectivelyRecent(formDatabase[i], now)})
        /\ analytics.trends.totalCount = Len(formDatabase)
        /\ 0 <= analytics.trends.recentCount
        /\ analytics.trends.recentCount <= analytics.trends.totalCount

\* the lines of the exported document
Lines == Split(csvContent, "\n")

HeaderLine ==
    <<"ID", ",", "MFC", ",", "Date", ",", "Tagged By", ",", "Item Type", ",",
      "Part Number", ",", "Asset SN", ",", "Service Call ID", ",", "Reason", ",",
      "Comments">>

\* the string-valued columns of the export, Date and ID apart, in order
TextColumns ==
    [c2 |-> "mfc", c4 |-> "taggedBy", c5 |-> "itemType", c6 |-> "partNumber",
     c7 |-> "removedFrom", c8 |-> "serviceCallId", c9 |-> "reasonRemove"]

ColumnOf == <<"", "c2", "", "c4", "c5", "c6", "c7", "c8", "c9", "">>

ExportedFields ==
    {"mfc", "removalDate", "date", "taggedBy", "itemType", "partNumber", "removedFrom",
     "serviceCallId", "reasonRemove", "comments"}

CountOf(s, c) == Cardinality({i \in DOMAIN s : s[i] = c})

\* the exported value of the record's field, '' when it is absent
Exports(record, f) == IF f \in DOMAIN record THEN record[f] ELSE <<>>

\* a record without both dates exports one of them; with both, removalDate
WrittenFields(record) ==
    IF Truthy(record, "removalDate") THEN ExportedFields \ {"date"}
    ELSE ExportedFields \ {"removalDate"}

RECURSIVE SumOver(_, _, _)
SumOver(record, fields, c) ==
    IF fields = {} THEN 0
    ELSE LET f == CHOOSE x \in fields : TRUE
         IN  CountOf(Exports(record, f), c) + SumOver(record, fields \ {f}, c)

RECURSIVE NewlinesWritten(_)
\* the newline characters in the fields of the records that are written out
NewlinesWritten(data) ==
    IF data = <<>> THEN 0
    ELSE SumOver(Head(data), WrittenFields(Head(data)), "\n")
         + NewlinesWritten(Tail(data))

CommasOutsideComments(record) ==
    SumOver(record, WrittenFields(record) \ {"comments"}, ",")

\* the comments with every comma turned into a semicolon
Semicolons(s) == [i \in DOMAIN s |-> IF s[i] = "," THEN ";" ELSE s[i]]

\* the line is the record's: ten cells, the text columns holding the
\* record's values or '' for a missing one, the last the escaped comments
IsLineOf(line, record) ==
    LET cells == Split(line, ",")
    IN  /\ Len(cells) = 10
        /\ \A k \in {2, 4, 5, 6, 7, 8, 9} :
              cells[k] = Exports(record, TextColumns[ColumnOf[k]])
        /\ cells[10] = Semicolons(Exports(record, "comments"))
        /\ \A k \in 1..10 : cells[k] # <<"undefined">>

\* C7 as claimed: the document of N records splits into exactly N + 1 lines,
\* the header and one line per record in insertion order, with the commas of
\* the comments replaced by semicolons and missing fields empty.
C7_Original ==
    Exported =>
        /\ Len(Lines) = Len(formDatabase) + 1
        /\ Lines[1] = HeaderLine
        /\ \A i \in DOMAIN formDatabase :
              CommasOutsideComments(formDatabase[i]) = 0 =>
                  IsLineOf(Lines[i + 1], formDatabase[i])

\* C7: the document of N records splits into exactly N + 1 + k lines, k
\* being the number of newline characters in the fields written out; the
\* first is the fixed header; and when k = 0 the others are one line per
\* record in insertion order, with the commas of the comments replaced by
\* semicolons and missing fields empty.
C7_ExportShape ==
    Exported =>
        /\ Len(Lines) = Len(formDatabase) + 1 + NewlinesWritten(formDatabase)
        /\ Lines[1] = HeaderLine
        /\ NewlinesWritten(formDatabase) = 0 =>
              \A i \in DOMAIN formDatabase :
                  CommasOutsideComments(formDatabase[i]) = 0 =>
                      IsLineOf(Lines[i + 1], formDatabase[i])

\* three records exported, one with a comma and one without comments
C7_Witness ==
    /\ Exported
    /\ Len(formDatabase) = 3
    /\ NewlinesWritten(formDatabase) = 0
    /\ \E i \in DOMAIN formDatabase : CountOf(Exports(formDatabase[i], "comments"), ",") > 0
    /\ \E i \in DOMAIN formDatabase : ~Has(formDatabase[i], "comments")

\* three records exported, one with a newline in its comments
C7_WitnessNewline ==
    /\ Exported
    /\ Len(formDatabase) = 3
    /\ NewlinesWritten(formDatabase) > 0

Emphasized(row) == row.tag = "div" /\ row.background = "#e3f2fd"

\* the lists handed to formatTopItems, each with the rows rendered from it
Rendered ==
    { [items |-> analytics.topParts,  rows |-> display.topParts],
      [items |-> analytics.topAssets, rows |-> display.topAssets] }

\* C8: a list of at least 2 entries whose first count is not 0 renders one
\* row per entry, of which exactly the row at index 0 is emphasized; an
\* empty list and a list whose first count is 0 render the single "No data
\* available" row and no normal row.
C8_EmphasisUniqueness ==
    AnalyticsDone =>
        \A r \in Rendered :
            /\ (Len(r.items) >= 2 /\ r.items[1].count # 0) =>
                  /\ Len(r.rows) = Len(r.items)
                  /\ \A i \in DOMAIN r.rows : r.rows[i].tag = "div"
                  /\ {i \in DOMAIN r.rows : Emphasized(r.rows[i])} = {1}
            /\ (Len(r.items) = 0 \/ r.items[1].count = 0) =>
                  /\ Len(r.rows) = 1
                  /\ r.rows[1].tag = "em"
                  /\ r.rows[1].name = <<"No data available">>

\* a rendered list whose first two entries tie with the top count
C8_Witness ==
    /\ AnalyticsDone
    /\ Len(analytics.topParts) >= 2
    /\ analytics.topParts[1].count = analytics.topParts[2].count
    /\ Len(display.topParts) = Len(analytics.topParts)

\* an empty list rendered, and a sentinel list rendered
C8_WitnessEmpty == AnalyticsDone /\ analytics.topParts = <<>>
C8_WitnessSentinel == AnalyticsDone /\ formDatabase = <<>> /\ Len(display.topParts) = 1

\* C10: for every record that has a date, the string the trend classifier
\* parses is the string exportToExcel writes into the Date column.
C10_SameEffectiveDate ==
    (AnalyticsDone /\ Exported) =>
        \A i \in DOMAIN formDatabase :
            (Truthy(formDatabase[i], "removalDate") \/ Truthy(formDatabase[i], "date")) =>
                /\ DateArgument(formDatabase[i]).defined
                /\ DateArgument(formDatabase[i]).s = DateCell(formDatabase[i])

\* C9: once the stored data is loaded, formDatabase changes only by a
\* saveForm whose required fields are all non-empty, which appends exactly
\* one record (holding the form's values) and leaves the stored records as
\* they were; a saveForm with a required field missing changes neither
\* formDatabase nor attachedFiles, posts nothing to Slack and does not
\* refresh the analytics; exportToExcel and updateAnalytics leave
\* formDatabase alone.
AllRequiredFilled(data) ==
    \A f \in {"mfc", "removalDate", "taggedBy", "itemType", "partNumber",
              "removedFrom", "reasonRemove"} :
        f \in DOMAIN data /\ data[f] # <<>>

C9_Step ==
    /\ (loaded /\ formDatabase' # formDatabase) =>
          /\ lastOp'.op = "saveForm"
          /\ AllRequiredFilled(lastOp'.input)
          /\ Len(formDatabase') = Len(formDatabase) + 1
          /\ SubSeq(formDatabase', 1, Len(formDatabase)) = formDatabase
          /\ \A f \in DOMAIN lastOp'.input :
                formDatabase'[Len(formDatabase')][f] = lastOp'.input[f]
    /\ (lastOp'.op = "saveForm" /\ ~AllRequiredFilled(lastOp'.input)) =>
          /\ UNCHANGED <<formDatabase, attachedFiles, slackPosts, analytics, display>>
          /\ \A k \in DOMAIN lastOp'.calls :
                lastOp'.calls[k] \notin {"sendToSlack", "updateAnalytics"}
    /\ lastOp'.op \in {"exportToExcel", "updateAnalytics"} =>
          formDatabase' = formDatabase

C9_AppendOnly == [][C9_Step]_vars

\* a record was appended by a valid saveForm, then a saveForm with a
\* required field missing ran
C9_Witness ==
    /\ Len(formDatabase) = Len(MockData) + 1
    /\ Len(slackPosts) = 1
    /\ lastOp.op = "saveForm"
    /\ ~AllRequiredFilled(lastOp.input)

=============================================================================
